---- MODULE Spec2Model ----
(***************************************************************************)
(* Producer-consumer, sequential vs parallel (ProdutoConsumidorCarlosEMM). *)
(* The model follows main, run_sequential, run_parallel, producer_par and  *)
(* consumer_par statement by statement; the mutex and the two condition    *)
(* variables are modelled by the owner of the mutex and by the threads'    *)
(* positions inside wait().  Time is not modelled: a sleep is one step.    *)
(***************************************************************************)
EXTENDS Integers, Sequences, FiniteSets, TLC

VARIABLES
    argv,        \* argv[1..argc-1] as given on the command line
    c,           \* Config of main
    mpc,         \* position of the main thread
    exitStatus,  \* process exit status, -1 while the process runs
    errOut,      \* TRUE once the usage error was written to std::cerr
    q,           \* std::deque<int> q, the shared buffer
    mtx,         \* owner of std::mutex mtx: "none", "prod", "cons", "main"
    done,        \* bool done
    pp,          \* position of the producer thread
    i,           \* loop variable of producer_par
    cp_,         \* position of the consumer thread
    consumed,    \* local counter of consumer_par
    item,        \* local item of consumer_par (0 before the first removal)
    b,           \* local buffer of run_sequential
    next,        \* local next of run_sequential
    seqConsumed, \* local consumed of run_sequential
    parLog,      \* items logged as "Produziu item" by producer_par, in order
    conLog,      \* items logged as "Consumiu item" by consumer_par, in order
    seqLog,      \* items logged as "Consumiu" by run_sequential, in order
    doneWrites,  \* writes of done = true in the current parallel run
    finalTotal,  \* total printed by the terminating consumer, -1 before
    seqTotal,    \* total printed by run_sequential, -1 before
    cpSignals,   \* calls of cp.notify_one() made so far
    ccSignals,   \* calls of cc.notify_one() made so far
    ccBroadcasts,\* calls of cc.notify_all() made so far
    summary      \* the "[Resumo]" lines printed by main, in order

vars == <<argv, c, mpc, exitStatus, errOut, q, mtx, done, pp, i, cp_, consumed,
          item, b, next, seqConsumed, parLog, conLog, seqLog, doneWrites,
          finalTotal, seqTotal, cpSignals, ccSignals, ccBroadcasts, summary>>

mainVars == <<argv, c, mpc, exitStatus, errOut>>
seqVars  == <<b, next, seqConsumed, seqLog, seqTotal>>
prodVars == <<pp, i, parLog, doneWrites>>
consVars == <<cp_, consumed, item, conLog, finalTotal>>
sigVars  == <<cpSignals, ccSignals, ccBroadcasts>>

----------------------------------------------------------------------------
(* Bounds *)
MaxArg == 5          \* largest digit used in a numeric command-line value

(* Defaults of struct Config *)
DefaultCap == 3
DefaultItems == 12
DefaultProdMs == 120
DefaultConsMs == 150

----------------------------------------------------------------------------
(* std::stoi on a token given as a sequence of characters.  The tokens     *)
(* considered carry no leading white space and at most two characters, so  *)
(* the white-space skipping and std::out_of_range do not arise.            *)

DigitVal == [ch \in {"0","1","2","3","4","5","6","7","8","9"} |->
               CASE ch = "0" -> 0 [] ch = "1" -> 1 [] ch = "2" -> 2
                 [] ch = "3" -> 3 [] ch = "4" -> 4 [] ch = "5" -> 5
                 [] ch = "6" -> 6 [] ch = "7" -> 7 [] ch = "8" -> 8
                 [] ch = "9" -> 9]

IsDigit(ch) == ch \in DOMAIN DigitVal

\* value of the longest prefix of digits of s, accumulated from acc
RECURSIVE DigitsValue(_, _)
DigitsValue(s, acc) ==
    IF s = <<>> \/ ~IsDigit(Head(s)) THEN acc
    ELSE DigitsValue(Tail(s), 10 * acc + DigitVal[Head(s)])

\* stoi: optional sign, then digits; no digit at all throws invalid_argument
StoiThrows(s) ==
    LET body == IF s # <<>> /\ Head(s) \in {"-", "+"} THEN Tail(s) ELSE s
    IN  body = <<>> \/ ~IsDigit(Head(body))

Stoi(s) ==
    LET neg  == s # <<>> /\ Head(s) = "-"
        body == IF s # <<>> /\ Head(s) \in {"-", "+"} THEN Tail(s) ELSE s
        v    == DigitsValue(body, 0)
    IN  IF neg THEN 0 - v ELSE v

DigitChar == [n \in 0..9 |-> CHOOSE ch \in DOMAIN DigitVal : DigitVal[ch] = n]

Modes == {"seq", "par", "both", "foo"}
NumTokens == { <<DigitChar[n]>> : n \in 0..MaxArg }
                 \cup { <<"-", "1">>, <<"x">>, <<"2", "x">> }
DelayTokens == { <<"0">>, <<"x">> }

\* the command lines considered: argv[1] a mode, argv[2..3] numeric tokens,
\* argv[4..5] delay tokens; any prefix of that
ArgVectors ==
    { <<>> } \cup { <<m>> : m \in Modes }
      \cup { <<m, a>> : m \in Modes, a \in NumTokens }
      \cup { <<m, a, n>> : m \in Modes, a \in NumTokens, n \in NumTokens }
      \cup { <<m, a, n, p>> : m \in Modes, a \in NumTokens, n \in NumTokens,
                              p \in DelayTokens }
      \cup { <<m, a, n, p, d>> : m \in Modes, a \in NumTokens, n \in NumTokens,
                                 p \in DelayTokens, d \in DelayTokens }

argc == Len(argv) + 1

DefaultConfig == [mode |-> "both", cap |-> DefaultCap, items |-> DefaultItems,
                  prod_ms |-> DefaultProdMs, cons_ms |-> DefaultConsMs]

Init ==
    /\ argv \in ArgVectors
    /\ c = DefaultConfig
    /\ mpc = "m_parse"
    /\ exitStatus = -1
    /\ errOut = FALSE
    /\ q = <<>>
    /\ mtx = "none"
    /\ done = FALSE
    /\ pp = "p_idle"
    /\ i = 0
    /\ cp_ = "c_idle"
    /\ consumed = 0
    /\ item = 0
    /\ b = <<>>
    /\ next = 0
    /\ seqConsumed = 0
    /\ parLog = <<>>
    /\ conLog = <<>>
    /\ seqLog = <<>>
    /\ doneWrites = 0
    /\ finalTotal = -1
    /\ seqTotal = -1
    /\ cpSignals = 0
    /\ ccSignals = 0
    /\ ccBroadcasts = 0
    /\ summary = <<>>

----------------------------------------------------------------------------
(* std::mutex mtx *)

\* faulty variant: a lock that never waits for the owner to release
MutexFreeAlways == TRUE

\* mtx.lock() (through unique_lock / lock_guard) returns only when no thread
\* owns the mutex
MutexFree == mtx = "none"

\* faulty variant: the unlock before the sleep is missing
LkUnlockKeeps(owner) == owner

\* lk.unlock() of lines 59 and 88: the owner gives the mutex up
LkUnlock(owner) == "none"

----------------------------------------------------------------------------
(* main: lines 126-175 *)

\* index of the first numeric argument on which std::stoi throws (7: none)
FirstThrow ==
    IF \E k \in 2..(argc - 1) : StoiThrows(argv[k])
      THEN CHOOSE k \in 2..(argc - 1) :
             /\ StoiThrows(argv[k])
             /\ \A j \in 2..(k - 1) : ~StoiThrows(argv[j])
      ELSE 7

\* some std::stoi of lines 130-133 throws
ParseThrows == FirstThrow < 7

\* argv[k] is present and its assignment is reached
Assigned(k) == argc > k /\ k < FirstThrow

\* the Config after the positional overrides of lines 129-133
ParsedConfig ==
    [mode    |-> IF Assigned(1) THEN argv[1] ELSE c.mode,
     cap     |-> IF Assigned(2) THEN Stoi(argv[2]) ELSE c.cap,
     items   |-> IF Assigned(3) THEN Stoi(argv[3]) ELSE c.items,
     prod_ms |-> IF Assigned(4) THEN Stoi(argv[4]) ELSE c.prod_ms,
     cons_ms |-> IF Assigned(5) THEN Stoi(argv[5]) ELSE c.cons_ms]

\* lines 127-138: read the arguments and print the header; an uncaught
\* exception of std::stoi ends the process through std::terminate
MainParse ==
    /\ mpc = "m_parse"
    /\ c' = ParsedConfig
    /\ mpc' = IF ParseThrows THEN "aborted" ELSE "m_dispatch"
    /\ UNCHANGED <<argv, exitStatus, errOut, q, mtx, done>>
    /\ UNCHANGED <<seqVars, prodVars, consVars>>
    /\ UNCHANGED <<sigVars, summary>>

\* faulty variant: every mode but "par" falls into the sequential branch
RunsSequentialElse == c.mode # "par"

\* lines 140 and 152: the modes that run run_sequential
RunsSequential == c.mode = "seq" \/ c.mode = "both"

\* lines 146 and 152: the modes that run run_parallel
RunsParallel == c.mode = "par" \/ c.mode = "both"

\* lines 140-173: choose the runner, or report the invalid mode and return 1
MainDispatch ==
    /\ mpc = "m_dispatch"
    /\ IF RunsSequential
         THEN /\ mpc' = "seq_outer"
              /\ b' = <<>> /\ next' = 1 /\ seqConsumed' = 0
              /\ UNCHANGED <<exitStatus, errOut>>
         ELSE IF RunsParallel
           THEN /\ mpc' = "par_spawn"
                /\ UNCHANGED <<exitStatus, errOut, b, next, seqConsumed>>
           ELSE /\ mpc' = "exited"
                /\ errOut' = TRUE
                /\ exitStatus' = 1
                /\ UNCHANGED <<b, next, seqConsumed>>
    /\ UNCHANGED <<argv, c, q, mtx, done, seqLog, seqTotal>>
    /\ UNCHANGED <<prodVars, consVars>>
    /\ UNCHANGED <<sigVars, summary>>

----------------------------------------------------------------------------
(* run_sequential: lines 103-123 *)

\* faulty variant: the supply stops one item early
SeqMoreShort == next < c.items \/ b # <<>>

\* line 106: next <= c.items || !b.empty()
SeqMore == next <= c.items \/ b # <<>>

\* line 106: the outer loop condition
SeqOuter ==
    /\ mpc = "seq_outer"
    /\ mpc' = IF SeqMore THEN "seq_fill" ELSE "seq_total"
    /\ UNCHANGED <<argv, c, exitStatus, errOut, q, mtx, done>>
    /\ UNCHANGED <<seqVars, prodVars, consVars>>
    /\ UNCHANGED <<sigVars, summary>>

\* faulty variant: the fill loop appends to the shared q as well
SeqFillShared ==
    /\ mpc = "seq_fill"
    /\ IF next <= c.items /\ Len(b) < c.cap
         THEN /\ b' = Append(b, next)
              /\ q' = Append(q, next)
              /\ next' = next + 1
              /\ mpc' = mpc
         ELSE /\ mpc' = "seq_drain"
              /\ UNCHANGED <<b, next, q>>
    /\ UNCHANGED <<argv, c, exitStatus, errOut, mtx, done>>
    /\ UNCHANGED <<seqConsumed, seqLog, seqTotal, prodVars, consVars>>
    /\ UNCHANGED <<sigVars, summary>>

\* lines 108-113: one iteration (or the exit) of the fill loop
SeqFill ==
    /\ mpc = "seq_fill"
    /\ IF next <= c.items /\ Len(b) < c.cap
         THEN /\ b' = Append(b, next)
              /\ next' = next + 1
              /\ mpc' = mpc
         ELSE /\ mpc' = "seq_drain"
              /\ UNCHANGED <<b, next>>
    /\ UNCHANGED <<argv, c, exitStatus, errOut, q, mtx, done>>
    /\ UNCHANGED <<seqConsumed, seqLog, seqTotal, prodVars, consVars>>
    /\ UNCHANGED <<sigVars, summary>>

\* lines 115-119: one iteration (or the exit) of the drain loop
SeqDrain ==
    /\ mpc = "seq_drain"
    /\ IF b # <<>>
         THEN /\ seqLog' = Append(seqLog, Head(b))
              /\ b' = Tail(b)
              /\ seqConsumed' = seqConsumed + 1
              /\ mpc' = mpc
         ELSE /\ mpc' = "seq_outer"
              /\ UNCHANGED <<b, seqConsumed, seqLog>>
    /\ UNCHANGED <<argv, c, exitStatus, errOut, q, mtx, done>>
    /\ UNCHANGED <<next, seqTotal, prodVars, consVars>>
    /\ UNCHANGED <<sigVars, summary>>

\* lines 121-122: print the total and return
SeqTotal ==
    /\ mpc = "seq_total"
    /\ seqTotal' = seqConsumed
    /\ mpc' = "seq_ret"
    /\ UNCHANGED <<argv, c, exitStatus, errOut, q, mtx, done>>
    /\ UNCHANGED <<b, next, seqConsumed, seqLog, prodVars, consVars>>
    /\ UNCHANGED <<sigVars, summary>>

\* faulty variant: mode both starts the threads without the reset
MainAfterSeqNoReset ==
    /\ mpc = "seq_ret"
    /\ IF c.mode = "seq"
         THEN mpc' = "exited" /\ exitStatus' = 0
         ELSE mpc' = "par_spawn" /\ exitStatus' = exitStatus
    /\ UNCHANGED <<argv, c, errOut, q, mtx, done>>
    /\ UNCHANGED <<seqVars, prodVars, consVars>>
    /\ summary' = IF c.mode = "seq" THEN <<"SEQUENTIAL">> ELSE summary
    /\ UNCHANGED sigVars

\* lines 143-144 (seq: summary, return 0) and line 156 (both: go on)
MainAfterSeq ==
    /\ mpc = "seq_ret"
    /\ IF c.mode = "seq"
         THEN mpc' = "exited" /\ exitStatus' = 0
         ELSE mpc' = "m_reset_lock" /\ exitStatus' = exitStatus
    /\ UNCHANGED <<argv, c, errOut, q, mtx, done>>
    /\ UNCHANGED <<seqVars, prodVars, consVars>>
    /\ summary' = IF c.mode = "seq" THEN <<"SEQUENTIAL">> ELSE summary
    /\ UNCHANGED sigVars

\* line 159: std::lock_guard<std::mutex> lk(mtx)
MainResetLock ==
    /\ mpc = "m_reset_lock"
    /\ MutexFree
    /\ mtx' = "main"
    /\ mpc' = "m_reset"
    /\ UNCHANGED <<argv, c, exitStatus, errOut, q, done>>
    /\ UNCHANGED <<seqVars, prodVars, consVars>>
    /\ UNCHANGED <<sigVars, summary>>

\* faulty variant: the flag is left set by the reset
ResetStateDone ==
    /\ q' = <<>>
    /\ done' = TRUE

\* line 159: q.clear(); done=false;
ResetState ==
    /\ q' = <<>>
    /\ done' = FALSE

\* line 159: the reset and the end of the guarded block
MainReset ==
    /\ mpc = "m_reset"
    /\ ResetState
    /\ mtx' = "none"
    /\ mpc' = "par_spawn"
    /\ UNCHANGED <<argv, c, exitStatus, errOut>>
    /\ UNCHANGED <<seqVars, prodVars, consVars>>
    /\ UNCHANGED <<sigVars, summary>>

----------------------------------------------------------------------------
(* run_parallel: lines 94-99 *)

\* line 96: std::thread tp(producer_par, c)
ParSpawnProducer ==
    /\ mpc = "par_spawn"
    /\ pp' = "p_start"
    /\ mpc' = "par_spawn2"
    /\ UNCHANGED <<argv, c, exitStatus, errOut, q, mtx, done>>
    /\ UNCHANGED <<i, parLog, doneWrites, seqVars, consVars>>
    /\ UNCHANGED <<sigVars, summary>>

\* line 96: std::thread tc(consumer_par, c)
ParSpawnConsumer ==
    /\ mpc = "par_spawn2"
    /\ cp_' = "c_start"
    /\ mpc' = "par_join"
    /\ UNCHANGED <<argv, c, exitStatus, errOut, q, mtx, done>>
    /\ UNCHANGED <<consumed, item, conLog, finalTotal, seqVars, prodVars>>
    /\ UNCHANGED <<sigVars, summary>>

\* line 97: tp.join()
ParJoinProducer ==
    /\ mpc = "par_join"
    /\ pp = "p_done"
    /\ mpc' = "par_join2"
    /\ UNCHANGED <<argv, c, exitStatus, errOut, q, mtx, done>>
    /\ UNCHANGED <<seqVars, prodVars, consVars>>
    /\ UNCHANGED <<sigVars, summary>>

\* lines 97-98: tc.join() and return
ParJoinConsumer ==
    /\ mpc = "par_join2"
    /\ cp_ = "c_done"
    /\ mpc' = "par_ret"
    /\ UNCHANGED <<argv, c, exitStatus, errOut, q, mtx, done>>
    /\ UNCHANGED <<seqVars, prodVars, consVars>>
    /\ UNCHANGED <<sigVars, summary>>

\* lines 149-150 and 164-169: summary, then return 0 (line 174)
MainAfterPar ==
    /\ mpc = "par_ret"
    /\ mpc' = "exited"
    /\ exitStatus' = 0
    /\ UNCHANGED <<argv, c, errOut, q, mtx, done>>
    /\ UNCHANGED <<seqVars, prodVars, consVars>>
    /\ summary' = IF c.mode = "par"
                    THEN <<"PARALLEL">>
                    ELSE <<"SEQUENTIAL", "PARALLEL", "seq-par">>
    /\ UNCHANGED sigVars

----------------------------------------------------------------------------
(* Condition variables cp (space available) and cc (item available or done) *)

\* cp.notify_one(): the producer, if blocked in cp.wait, becomes runnable
NotifyCp(p) == IF p = "p_waiting" THEN "p_woken" ELSE p

\* cc.notify_one(): the consumer, the only thread that waits on cc, becomes
\* runnable if it is blocked in cc.wait
NotifyOneCc(k) == IF k = "c_waiting" THEN "c_woken" ELSE k

\* faulty variant: the completion is not broadcast
NotifyAllCcNone(k) == k

\* cc.notify_all(): every thread blocked in cc.wait becomes runnable
NotifyAllCc(k) == IF k = "c_waiting" THEN "c_woken" ELSE k

----------------------------------------------------------------------------
(* producer_par: lines 46-66 *)

\* faulty variant: off by one, full only above the capacity
ProdFullOffByOne == Len(q) > c.cap

\* line 51: (int)q.size() >= c.cap
ProdFull == Len(q) >= c.cap

\* line 53: the predicate of cp.wait
ProdWaitPred == Len(q) < c.cap

\* faulty variant: the loop stops one item early
ProdMoreShort == i < c.items

\* line 48: i <= c.items
ProdMore == i <= c.items

\* lines 47-48: the thread starts, i = 1
ProdStart ==
    /\ pp = "p_start"
    /\ i' = 1
    /\ pp' = "p_loop"
    /\ UNCHANGED <<mainVars, seqVars, consVars, q, mtx, done, parLog, doneWrites>>
    /\ UNCHANGED <<sigVars, summary>>

\* line 48: the loop condition
ProdLoop ==
    /\ pp = "p_loop"
    /\ pp' = IF ProdMore THEN "p_lock" ELSE "p_dlock"
    /\ UNCHANGED <<mainVars, seqVars, consVars, q, mtx, done, i, parLog, doneWrites>>
    /\ UNCHANGED <<sigVars, summary>>

\* line 49: std::unique_lock<std::mutex> lk(mtx)
ProdLock ==
    /\ pp = "p_lock"
    /\ MutexFree
    /\ mtx' = "prod"
    /\ pp' = "p_check"
    /\ UNCHANGED <<mainVars, seqVars, consVars, q, done, i, parLog, doneWrites>>
    /\ UNCHANGED <<sigVars, summary>>

\* lines 51-54: while full, log and cp.wait (which, its predicate being
\* false, releases the mutex and blocks); otherwise go on to produce
ProdCheck ==
    /\ pp = "p_check"
    /\ IF ProdFull
         THEN pp' = "p_waiting" /\ mtx' = "none"
         ELSE pp' = "p_push" /\ mtx' = mtx
    /\ UNCHANGED <<mainVars, seqVars, consVars, q, done, i, parLog, doneWrites>>
    /\ UNCHANGED <<sigVars, summary>>

\* line 53: cp.wait returns from the underlying wait without a notification
ProdSpurious ==
    /\ pp = "p_waiting"
    /\ pp' = "p_woken"
    /\ UNCHANGED <<mainVars, seqVars, consVars, q, mtx, done, i, parLog, doneWrites>>
    /\ UNCHANGED <<sigVars, summary>>

\* line 53: the woken producer reacquires the mutex inside cp.wait
ProdReacquire ==
    /\ pp = "p_woken"
    /\ MutexFree
    /\ mtx' = "prod"
    /\ pp' = "p_recheck"
    /\ UNCHANGED <<mainVars, seqVars, consVars, q, done, i, parLog, doneWrites>>
    /\ UNCHANGED <<sigVars, summary>>

\* line 53: cp.wait re-evaluates its predicate: return, or block again
ProdRecheck ==
    /\ pp = "p_recheck"
    /\ IF ProdWaitPred
         THEN pp' = "p_check" /\ mtx' = mtx
         ELSE pp' = "p_waiting" /\ mtx' = "none"
    /\ UNCHANGED <<mainVars, seqVars, consVars, q, done, i, parLog, doneWrites>>
    /\ UNCHANGED <<sigVars, summary>>

\* lines 56-57: q.push_back(i) and its log line
ProdPush ==
    /\ pp = "p_push"
    /\ q' = Append(q, i)
    /\ parLog' = Append(parLog, i)
    /\ pp' = "p_notify"
    /\ UNCHANGED <<mainVars, seqVars, consVars, mtx, done, i, doneWrites>>
    /\ UNCHANGED <<sigVars, summary>>

\* faulty variant: the producer does not signal after the append
ProdNotifySkipped ==
    /\ pp = "p_notify"
    /\ pp' = "p_unlock"
    /\ UNCHANGED <<mainVars, seqVars, consVars, sigVars, summary, q, mtx, done>>
    /\ UNCHANGED <<i, parLog, doneWrites>>

\* line 58: cc.notify_one()
ProdNotify ==
    /\ pp = "p_notify"
    /\ cp_' = NotifyOneCc(cp_)
    /\ pp' = "p_unlock"
    /\ UNCHANGED <<mainVars, seqVars, q, mtx, done, i, parLog, doneWrites>>
    /\ UNCHANGED <<consumed, item, conLog, finalTotal>>
    /\ ccSignals' = ccSignals + 1
    /\ UNCHANGED <<cpSignals, ccBroadcasts, summary>>

\* line 59: lk.unlock()
ProdUnlock ==
    /\ pp = "p_unlock"
    /\ mtx' = LkUnlock("prod")
    /\ pp' = "p_sleep"
    /\ UNCHANGED <<mainVars, seqVars, consVars, q, done, i, parLog, doneWrites>>
    /\ UNCHANGED <<sigVars, summary>>

\* lines 60 and 48: sleep_for(prod_ms), then ++i
ProdSleep ==
    /\ pp = "p_sleep"
    /\ i' = i + 1
    /\ pp' = "p_loop"
    /\ UNCHANGED <<mainVars, seqVars, consVars, q, mtx, done, parLog, doneWrites>>
    /\ UNCHANGED <<sigVars, summary>>

\* line 63: std::lock_guard<std::mutex> lk(mtx)
ProdDoneLock ==
    /\ pp = "p_dlock"
    /\ MutexFree
    /\ mtx' = "prod"
    /\ pp' = "p_setdone"
    /\ UNCHANGED <<mainVars, seqVars, consVars, q, done, i, parLog, doneWrites>>
    /\ UNCHANGED <<sigVars, summary>>

\* line 63: done = true
ProdSetDone ==
    /\ pp = "p_setdone"
    /\ done' = TRUE
    /\ doneWrites' = doneWrites + 1
    /\ pp' = "p_dunlock"
    /\ UNCHANGED <<mainVars, seqVars, consVars, q, mtx, i, parLog>>
    /\ UNCHANGED <<sigVars, summary>>

\* line 63: the end of the guarded block releases the mutex
ProdDoneUnlock ==
    /\ pp = "p_dunlock"
    /\ mtx' = "none"
    /\ pp' = "p_notifyall"
    /\ UNCHANGED <<mainVars, seqVars, consVars, q, done, i, parLog, doneWrites>>
    /\ UNCHANGED <<sigVars, summary>>

\* lines 64-66: cc.notify_all(), the last message, the thread ends
ProdNotifyAll ==
    /\ pp = "p_notifyall"
    /\ cp_' = NotifyAllCc(cp_)
    /\ pp' = "p_done"
    /\ UNCHANGED <<mainVars, seqVars, q, mtx, done, i, parLog, doneWrites>>
    /\ UNCHANGED <<consumed, item, conLog, finalTotal>>
    /\ ccBroadcasts' = ccBroadcasts + 1
    /\ UNCHANGED <<cpSignals, ccSignals, summary>>

----------------------------------------------------------------------------
(* consumer_par: lines 69-91 *)

\* line 75: q.empty()
ConsEmpty == q = <<>>

\* line 76: if(done)
ConsTerminate == done

\* line 82: the predicate of cc.wait
ConsWaitPred == q # <<>> \/ done

\* faulty variant: the consumer reads the back of the deque
ConsFrontBack == q[Len(q)]

\* line 85: q.front()
ConsFront == Head(q)

\* lines 70-71: the thread starts, consumed = 0
ConsStart ==
    /\ cp_ = "c_start"
    /\ consumed' = 0
    /\ cp_' = "c_lock"
    /\ UNCHANGED <<mainVars, seqVars, prodVars, q, mtx, done, item, conLog, finalTotal>>
    /\ UNCHANGED <<sigVars, summary>>

\* line 73: std::unique_lock<std::mutex> lk(mtx)
ConsLock ==
    /\ cp_ = "c_lock"
    /\ MutexFree
    /\ mtx' = "cons"
    /\ cp_' = "c_check"
    /\ UNCHANGED <<mainVars, seqVars, prodVars, q, done, consumed, item, conLog, finalTotal>>
    /\ UNCHANGED <<sigVars, summary>>

\* lines 75-83: while empty: if done, log the total and return; otherwise
\* log and cc.wait (which, its predicate being false, releases the mutex and
\* blocks); if not empty go on to consume
ConsCheck ==
    /\ cp_ = "c_check"
    /\ IF ConsEmpty
         THEN IF ConsTerminate
                THEN /\ cp_' = "c_ret"
                     /\ finalTotal' = consumed
                     /\ mtx' = mtx
                ELSE /\ cp_' = "c_waiting"
                     /\ mtx' = "none"
                     /\ finalTotal' = finalTotal
         ELSE /\ cp_' = "c_pop"
              /\ mtx' = mtx
              /\ finalTotal' = finalTotal
    /\ UNCHANGED <<mainVars, seqVars, prodVars, q, done, consumed, item, conLog>>
    /\ UNCHANGED <<sigVars, summary>>

\* line 79: return; the destructor of lk releases the mutex
ConsReturn ==
    /\ cp_ = "c_ret"
    /\ mtx' = "none"
    /\ cp_' = "c_done"
    /\ UNCHANGED <<mainVars, seqVars, prodVars, q, done, consumed, item, conLog, finalTotal>>
    /\ UNCHANGED <<sigVars, summary>>

\* line 82: cc.wait returns from the underlying wait without a notification
ConsSpurious ==
    /\ cp_ = "c_waiting"
    /\ cp_' = "c_woken"
    /\ UNCHANGED <<mainVars, seqVars, prodVars, q, mtx, done, consumed, item, conLog, finalTotal>>
    /\ UNCHANGED <<sigVars, summary>>

\* line 82: the woken consumer reacquires the mutex inside cc.wait
ConsReacquire ==
    /\ cp_ = "c_woken"
    /\ MutexFree
    /\ mtx' = "cons"
    /\ cp_' = "c_recheck"
    /\ UNCHANGED <<mainVars, seqVars, prodVars, q, done, consumed, item, conLog, finalTotal>>
    /\ UNCHANGED <<sigVars, summary>>

\* line 82: cc.wait re-evaluates its predicate: return, or block again
ConsRecheck ==
    /\ cp_ = "c_recheck"
    /\ IF ConsWaitPred
         THEN cp_' = "c_check" /\ mtx' = mtx
         ELSE cp_' = "c_waiting" /\ mtx' = "none"
    /\ UNCHANGED <<mainVars, seqVars, prodVars, q, done, consumed, item, conLog, finalTotal>>
    /\ UNCHANGED <<sigVars, summary>>

\* lines 85-86: item = q.front(); q.pop_front(); ++consumed; and the log line
ConsPop ==
    /\ cp_ = "c_pop"
    /\ item' = ConsFront
    /\ q' = Tail(q)
    /\ consumed' = consumed + 1
    /\ conLog' = Append(conLog, ConsFront)
    /\ cp_' = "c_notify"
    /\ UNCHANGED <<mainVars, seqVars, prodVars, mtx, done, finalTotal>>
    /\ UNCHANGED <<sigVars, summary>>

\* faulty variant: the consumer does not signal after the removal
ConsNotifySkipped ==
    /\ cp_ = "c_notify"
    /\ cp_' = "c_unlock"
    /\ UNCHANGED <<mainVars, seqVars, prodVars, sigVars, summary, q, mtx, done>>
    /\ UNCHANGED <<consumed, item, conLog, finalTotal>>

\* line 87: cp.notify_one()
ConsNotify ==
    /\ cp_ = "c_notify"
    /\ pp' = NotifyCp(pp)
    /\ cp_' = "c_unlock"
    /\ UNCHANGED <<mainVars, seqVars, q, mtx, done, i, parLog, doneWrites>>
    /\ UNCHANGED <<consumed, item, conLog, finalTotal>>
    /\ cpSignals' = cpSignals + 1
    /\ UNCHANGED <<ccSignals, ccBroadcasts, summary>>

\* line 88: lk.unlock()
ConsUnlock ==
    /\ cp_ = "c_unlock"
    /\ mtx' = LkUnlock("cons")
    /\ cp_' = "c_sleep"
    /\ UNCHANGED <<mainVars, seqVars, prodVars, q, done, consumed, item, conLog, finalTotal>>
    /\ UNCHANGED <<sigVars, summary>>

\* line 89: sleep_for(cons_ms), then the next iteration
ConsSleep ==
    /\ cp_ = "c_sleep"
    /\ cp_' = "c_lock"
    /\ UNCHANGED <<mainVars, seqVars, prodVars, q, mtx, done, consumed, item, conLog, finalTotal>>
    /\ UNCHANGED <<sigVars, summary>>

----------------------------------------------------------------------------
(* Specifications *)

MainNext ==
    \/ MainParse \/ MainDispatch
    \/ SeqOuter \/ SeqFill \/ SeqDrain \/ SeqTotal
    \/ MainAfterSeq \/ MainResetLock \/ MainReset
    \/ ParSpawnProducer \/ ParSpawnConsumer
    \/ ParJoinProducer \/ ParJoinConsumer \/ MainAfterPar

ProdStep ==
    \/ ProdStart \/ ProdLoop \/ ProdCheck \/ ProdRecheck \/ ProdPush
    \/ ProdNotify \/ ProdUnlock \/ ProdSleep \/ ProdSetDone
    \/ ProdDoneUnlock \/ ProdNotifyAll

ProdAcquire == ProdLock \/ ProdReacquire \/ ProdDoneLock

ConsStep ==
    \/ ConsStart \/ ConsCheck \/ ConsReturn \/ ConsRecheck \/ ConsPop
    \/ ConsNotify \/ ConsUnlock \/ ConsSleep

ConsAcquire == ConsLock \/ ConsReacquire

Spurious == ProdSpurious \/ ConsSpurious

Next ==
    \/ MainNext
    \/ ProdStep \/ ProdAcquire
    \/ ConsStep \/ ConsAcquire
    \/ Spurious

Spec == Init /\ [][Next]_vars

\* fair scheduling: every thread that can run does run, and a thread that
\* can again and again take the mutex does take it; a spurious wakeup is
\* never owed
FairSpec ==
    /\ Spec
    /\ WF_vars(MainNext)
    /\ WF_vars(ProdStep) /\ SF_vars(ProdAcquire)
    /\ WF_vars(ConsStep) /\ SF_vars(ConsAcquire)

----------------------------------------------------------------------------
(* Vocabulary of the properties *)

\* the Config is valid: capacity >= 1, itemCount >= 1
Valid == c.cap >= 1 /\ c.items >= 1

\* the sequence 1, 2, ..., n (empty when n < 1)
UpTo(n) == [k \in 1..n |-> k]

IsPrefix(s, t) == Len(s) <= Len(t) /\ s = SubSeq(t, 1, Len(s))

\* both threads of the parallel run have ended
ThreadsEnded == pp = "p_done" /\ cp_ = "c_done"

\* a step of one of the two threads, other than a spurious wakeup
ThreadNext == ProdStep \/ ProdAcquire \/ ConsStep \/ ConsAcquire

----------------------------------------------------------------------------
(* Properties of the parallel strategy *)

\* C1: with a valid Config, at every moment of the parallel run the items
\* removed by the consumer are a prefix of 1, 2, ..., itemCount and are the
\* items appended by the producer, in the same order (FIFO).
C1_ConsumedIsFifoPrefix ==
    Valid =>
        /\ IsPrefix(conLog, UpTo(c.items))
        /\ IsPrefix(conLog, parLog)
        /\ IsPrefix(parLog, UpTo(c.items))

\* the consumer has removed two items while a third one was in the buffer
C1_Witness ==
    /\ Valid
    /\ cp_ = "c_notify"
    /\ conLog = <<1, 2>>
    /\ q # <<>>

\* C2: with a valid Config the size of the shared buffer stays within
\* 0..capacity in every state, and within 0..1 when the capacity is 1.
C2_BufferBounded ==
    Valid =>
        /\ 0 <= Len(q) /\ Len(q) <= c.cap
        /\ (c.cap = 1 => Len(q) <= 1)

\* the producer has just appended the item that fills a buffer of capacity 1
C2_Witness ==
    /\ Valid
    /\ c.cap = 1
    /\ pp = "p_notify"
    /\ Len(q) = c.cap
    /\ Len(parLog) >= 2

\* C3: with a valid Config and fair scheduling both threads of the parallel
\* run end, and when they have ended the producer has appended exactly
\* itemCount items, the consumer has removed exactly itemCount items and the
\* buffer is empty.
C3_ParallelTerminates ==
    /\ [](mpc = "par_spawn" /\ Valid => <>ThreadsEnded)
    /\ [](ThreadsEnded /\ Valid =>
            /\ Len(parLog) = c.items
            /\ Len(conLog) = c.items
            /\ consumed = c.items
            /\ q = <<>>)

\* both threads have ended after twelve items went through a buffer of two
C3_Witness ==
    /\ ThreadsEnded
    /\ Valid
    /\ c.cap = 2
    /\ c.items = 12
    /\ consumed = 12

\* C4: with a valid Config the parallel run has no deadlock: the two threads
\* are never both suspended, a suspended thread whose predicate is true has a
\* notification still to come, and as long as a thread has not ended some
\* thread can take a step that is not a spurious wakeup.
C4_NoDeadlock ==
    Valid =>
        /\ ~(pp = "p_waiting" /\ cp_ = "c_waiting")
        /\ (pp = "p_waiting" /\ ProdWaitPred => cp_ = "c_notify")
        /\ (cp_ = "c_waiting" /\ ConsWaitPred =>
                pp \in {"p_notify", "p_dunlock", "p_notifyall"})
        /\ (mpc \in {"par_join", "par_join2"} /\ ~ThreadsEnded
                => ENABLED ThreadNext)

\* the consumer is suspended on the empty buffer, the completion flag is
\* set, and the broadcast is still to come
C4_Witness ==
    /\ Valid
    /\ cp_ = "c_waiting"
    /\ q = <<>>
    /\ done
    /\ pp = "p_notifyall"

\* C5: the consumer ends only after it has seen, in one critical section,
\* the buffer empty and the completion flag set; then no item is in the
\* buffer, the producer has no item left to produce, and the consumed count
\* equals itemCount.
C5_ConsumerEndsOnlyWhenDrained ==
    cp_ \in {"c_ret", "c_done"} =>
        /\ q = <<>>
        /\ done
        /\ ~ProdMore
        /\ finalTotal = consumed
        /\ consumed = c.items

\* C6: during a parallel run done is false until the producer has appended
\* all itemCount items, it is written once, by the producer holding the
\* mutex, and it does not return to false.
C6_DoneSetOnceAtTheEnd ==
    /\ [](pp # "p_idle" /\ done =>
            /\ Len(parLog) = c.items
            /\ doneWrites = 1)
    /\ [][pp # "p_idle" /\ done' # done =>
            /\ ~done /\ done'
            /\ pp = "p_setdone"
            /\ mtx = "prod"]_vars

----------------------------------------------------------------------------
(* Properties of the sequential strategy and of main *)

\* C7: with a valid Config run_sequential ends, having consumed exactly
\* 1, 2, ..., itemCount in this order, with its buffer empty and a reported
\* total of itemCount.
C7_SequentialCorrect ==
    /\ [](mpc = "seq_outer" /\ Valid => <>(mpc = "seq_ret"))
    /\ [](mpc = "seq_ret" /\ Valid =>
            /\ seqLog = UpTo(c.items)
            /\ b = <<>>
            /\ seqConsumed = c.items
            /\ seqTotal = c.items)

\* scenario 1: mode seq, capacity 3, five items
C7_Witness ==
    /\ mpc = "seq_ret"
    /\ c.mode = "seq"
    /\ c.cap = 3
    /\ seqLog = <<1, 2, 3, 4, 5>>
    /\ seqTotal = 5

\* the mode argument is given and is none of seq, par, both
InvalidModeArg == argc >= 2 /\ argv[1] \notin {"seq", "par", "both"}

\* the process has ended
Ended == mpc \in {"exited", "aborted"}

\* nothing was produced or consumed and no runner was entered
NoEvents ==
    /\ parLog = <<>> /\ conLog = <<>> /\ seqLog = <<>>
    /\ q = <<>> /\ done = FALSE /\ b = <<>> /\ next = 0
    /\ pp = "p_idle" /\ cp_ = "c_idle"

\* C8 as stated: whatever the other arguments, an invalid mode ends the
\* process with status 1 and an error message, without any production or
\* consumption, and a valid mode ends it with status 0.
C8_AsStated ==
    /\ (InvalidModeArg => NoEvents)
    /\ (Ended => IF InvalidModeArg
                   THEN exitStatus = 1 /\ errOut
                   ELSE exitStatus = 0)

\* C8: when every numeric argument present is accepted by std::stoi, an
\* invalid mode ends the process with status 1 and an error message and
\* without any production or consumption, and a valid mode ends it, if it
\* ends, with status 0; when std::stoi rejects a numeric argument the process
\* is terminated by the exception, whatever the mode, with no status, no
\* message and no production or consumption.
C8_ModeDecidesExit ==
    /\ (InvalidModeArg => NoEvents)
    /\ (Ended /\ ~ParseThrows =>
            /\ mpc = "exited"
            /\ IF InvalidModeArg
                 THEN exitStatus = 1 /\ errOut
                 ELSE exitStatus = 0 /\ ~errOut)
    /\ (ParseThrows /\ mpc # "m_parse" =>
            /\ mpc = "aborted"
            /\ exitStatus = -1 /\ ~errOut
            /\ NoEvents)

\* an invalid mode followed by accepted numbers has ended with status 1
C8_Witness ==
    /\ Ended
    /\ InvalidModeArg
    /\ argc >= 4
    /\ ~ParseThrows
    /\ exitStatus = 1

\* the shared state as it is when the process starts
SharedInitial ==
    /\ q = <<>> /\ done = FALSE /\ mtx = "none"
    /\ pp = "p_idle" /\ cp_ = "c_idle"
    /\ parLog = <<>> /\ conLog = <<>> /\ doneWrites = 0

\* C9: the parallel run of mode both starts from the shared state from which
\* the parallel run of mode par starts (buffer empty, flag false), and in
\* either mode the items it produces and consumes are 1, 2, ..., itemCount in
\* this order, hence the same in both.
C9_ResetIdempotent ==
    /\ (mpc = "par_spawn" => SharedInitial)
    /\ (mpc = "par_ret" =>
            /\ parLog = UpTo(c.items)
            /\ conLog = UpTo(c.items))

\* in mode both the parallel run has ended after the sequential one
C9_Witness ==
    /\ c.mode = "both"
    /\ mpc = "par_ret"
    /\ seqLog = <<1, 2>>
    /\ conLog = seqLog

\* C10: a runner is entered only with capacity >= 1 and itemCount >= 1.
C10_RunnersGetValidConfig ==
    mpc \in {"seq_outer", "par_spawn"} => Valid

----------------------------------------------------------------------------
(* Locking discipline of the parallel strategy *)

\* positions at which producer_par owns the mutex
ProdCritical ==
    {"p_check", "p_recheck", "p_push", "p_notify", "p_unlock", "p_setdone",
     "p_dunlock"}

\* positions at which consumer_par owns the mutex
ConsCritical ==
    {"c_check", "c_recheck", "c_pop", "c_notify", "c_unlock", "c_ret"}

\* the threads that are inside a section guarded by mtx
Holders ==
    { t \in {"prod", "cons", "main"} :
        \/ t = "prod" /\ pp \in ProdCritical
        \/ t = "cons" /\ cp_ \in ConsCritical
        \/ t = "main" /\ mpc = "m_reset" }

\* C11: q and done are written, and read for a wait or terminate decision,
\* only by the thread that owns mtx, and at most one thread owns mtx: the
\* threads inside a guarded section are exactly the owner of mtx, and a step
\* that changes q or done is taken by the owner, who keeps the mutex over it.
C11_MutationsUnderLock ==
    /\ [](/\ Cardinality(Holders) <= 1
          /\ (mtx = "none" <=> Holders = {})
          /\ (mtx # "none" => Holders = {mtx}))
    /\ [][(q' # q \/ done' # done) =>
            \/ pp' # pp /\ pp \in ProdCritical /\ mtx = "prod" /\ mtx' = "prod"
            \/ cp_' # cp_ /\ cp_ \in ConsCritical /\ mtx = "cons" /\ mtx' = "cons"
            \/ mpc' # mpc /\ mpc = "m_reset" /\ mtx = "main"]_vars

\* the consumer is about to remove an item while the producer, which wants
\* to append the next one, is kept out by the mutex
C11_Witness ==
    /\ cp_ = "c_pop"
    /\ mtx = "cons"
    /\ pp = "p_lock"
    /\ Len(q) >= 1

\* C12: the producer starts to wait only when, under the mutex, the size is
\* at least the capacity, and appends only when the size is below it; the
\* consumer starts to wait only when, under the mutex, the buffer is empty
\* and done is false, and removes only from a non-empty buffer; spurious
\* wakeups change none of this.
C12_WaitDiscipline ==
    [][/\ (pp' = "p_waiting" /\ pp # "p_waiting" =>
              mtx = "prod" /\ Len(q) >= c.cap)
       /\ (parLog' # parLog \/ Len(q') > Len(q) =>
              mtx = "prod" /\ Len(q) < c.cap)
       /\ (cp_' = "c_waiting" /\ cp_ # "c_waiting" =>
              mtx = "cons" /\ q = <<>> /\ ~done)
       /\ (conLog' # conLog \/ Len(q') < Len(q) =>
              mtx = "cons" /\ q # <<>>)]_vars

\* the producer, woken although the buffer is still full (so without a
\* notification), re-evaluates the predicate under the mutex
C12_Witness ==
    /\ Valid
    /\ pp = "p_recheck"
    /\ mtx = "prod"
    /\ Len(q) = c.cap
    /\ Len(conLog) >= 1

\* C13: a thread that is in its simulated delay does not own mtx, and the
\* other thread, if it wants the mutex, can take it.
C13_SleepOutsideLock ==
    /\ (pp = "p_sleep" =>
            /\ mtx # "prod"
            /\ (cp_ \in {"c_lock", "c_woken"} => ENABLED ConsAcquire))
    /\ (cp_ = "c_sleep" =>
            /\ mtx # "cons"
            /\ (pp \in {"p_lock", "p_woken", "p_dlock"} => ENABLED ProdAcquire))

\* the consumer removes an item while the producer sleeps
C13_Witness ==
    /\ pp = "p_sleep"
    /\ cp_ = "c_pop"
    /\ mtx = "cons"

----------------------------------------------------------------------------
(* Signalling *)

\* C14: every removal is followed by cp.notify_one() before the consumer
\* removes or waits again, every append by cc.notify_one() before the
\* producer appends or waits again, and the write of done by cc.notify_all()
\* before the producer ends; a signal wakes the thread that waits for it.
C14_SignalAfterMutation ==
    /\ [](/\ cpSignals = Len(conLog) - (IF cp_ = "c_notify" THEN 1 ELSE 0)
          /\ ccSignals = Len(parLog) - (IF pp = "p_notify" THEN 1 ELSE 0)
          /\ ccBroadcasts = doneWrites
                - (IF pp \in {"p_dunlock", "p_notifyall"} THEN 1 ELSE 0)
          /\ (pp = "p_done" => done /\ ccBroadcasts = 1))
    /\ [][/\ (conLog' # conLog \/ (cp_' = "c_waiting" /\ cp_ # "c_waiting")
                => cpSignals = Len(conLog))
          /\ (parLog' # parLog \/ (pp' = "p_waiting" /\ pp # "p_waiting")
                => ccSignals = Len(parLog))
          /\ (cpSignals' # cpSignals => pp' # "p_waiting")
          /\ (ccSignals' # ccSignals => cp_' # "c_waiting")
          /\ (ccBroadcasts' # ccBroadcasts => cp_' # "c_waiting")]_vars

\* the producer has ended after its broadcast, every append and every
\* removal having been signalled
C14_Witness ==
    /\ pp = "p_done"
    /\ ccBroadcasts = 1
    /\ ccSignals = 5
    /\ cpSignals = 5
    /\ cp_ = "c_sleep"

\* C15 as stated: append (remove), release the mutex, then signal, then
\* sleep: each signal of the per-item step is issued by a thread that has
\* released the mutex.
C15_AsStated ==
    [][/\ (ccSignals' # ccSignals => mtx # "prod")
       /\ (cpSignals' # cpSignals => mtx # "cons")]_vars

\* C15: the order of the producer's per-item step is: append the item,
\* signal cc while still owning the mutex, release the mutex, sleep; and of
\* the consumer's: remove the front item, signal cp while still owning the
\* mutex, release the mutex, sleep.
C15_SignalThenUnlockThenSleep ==
    [][/\ (ccSignals' # ccSignals =>
              mtx = "prod" /\ mtx' = "prod" /\ ccSignals = Len(parLog) - 1)
       /\ (pp = "p_push" /\ pp' # pp => pp' = "p_notify" /\ mtx' = "prod")
       /\ (pp = "p_notify" /\ pp' # pp =>
              pp' = "p_unlock" /\ ccSignals' = ccSignals + 1)
       /\ (pp = "p_unlock" /\ pp' # pp =>
              pp' = "p_sleep" /\ mtx = "prod" /\ mtx' = "none")
       /\ (pp' = "p_sleep" /\ pp' # pp => pp = "p_unlock")
       /\ (cpSignals' # cpSignals =>
              mtx = "cons" /\ mtx' = "cons" /\ cpSignals = Len(conLog) - 1)
       /\ (cp_ = "c_pop" /\ cp_' # cp_ => cp_' = "c_notify" /\ mtx' = "cons")
       /\ (cp_ = "c_notify" /\ cp_' # cp_ =>
              cp_' = "c_unlock" /\ cpSignals' = cpSignals + 1)
       /\ (cp_ = "c_unlock" /\ cp_' # cp_ =>
              cp_' = "c_sleep" /\ mtx = "cons" /\ mtx' = "none")
       /\ (cp_' = "c_sleep" /\ cp_' # cp_ => cp_ = "c_unlock")]_vars

\* the producer has signalled the waiting consumer and still owns the mutex
C15_Witness ==
    /\ pp = "p_unlock"
    /\ mtx = "prod"
    /\ ccSignals = Len(parLog)
    /\ Len(parLog) >= 2
    /\ cp_ = "c_woken"

----------------------------------------------------------------------------
(* Phases of the sequential strategy *)

Min(x, y) == IF x <= y THEN x ELSE y

\* run_sequential is executing
InSequential ==
    mpc \in {"seq_outer", "seq_fill", "seq_drain", "seq_total", "seq_ret"}

\* C16: run_sequential alternates fill and drain phases; a fill phase ends
\* with the size equal to the capacity or with no item left, so a drain
\* phase starts with min(capacity, items left before the fill) items; a
\* drain phase removes the items one at a time until the buffer is empty;
\* the size stays within 0..capacity; the loop ends only with the supply
\* exhausted and the buffer empty.
C16_FillDrainPhases ==
    /\ [](InSequential => 0 <= Len(b) /\ Len(b) <= c.cap)
    /\ [][/\ (mpc = "seq_outer" /\ mpc' # mpc =>
                 /\ mpc' \in {"seq_fill", "seq_total"}
                 /\ b = <<>>
                 /\ (mpc' = "seq_total" => next > c.items))
          /\ (mpc = "seq_fill" /\ b' # b =>
                 /\ mpc' = "seq_fill"
                 /\ b' = Append(b, next) /\ next' = next + 1)
          /\ (mpc = "seq_fill" /\ mpc' # mpc =>
                 /\ mpc' = "seq_drain"
                 /\ (Len(b) = c.cap \/ next > c.items)
                 /\ Len(b) = Min(c.cap, c.items - (next - Len(b)) + 1))
          /\ (mpc = "seq_drain" /\ b' # b =>
                 /\ mpc' = "seq_drain"
                 /\ b' = Tail(b)
                 /\ seqLog' = Append(seqLog, Head(b)))
          /\ (mpc = "seq_drain" /\ mpc' # mpc =>
                 mpc' = "seq_outer" /\ b = <<>>)]_vars

----------------------------------------------------------------------------
(* Order of the runs in main *)

\* run_parallel is executing
InParallel ==
    mpc \in {"par_spawn", "par_spawn2", "par_join", "par_join2", "par_ret"}

\* C17: mode seq runs only run_sequential, mode par only run_parallel; mode
\* both runs run_sequential to its end, then resets q and done under the
\* mutex while no thread exists, then runs run_parallel, and only then
\* prints both times and the difference sequential minus parallel.
C17_DispatchOrder ==
    /\ [](mpc # "m_parse" =>
            /\ (c.mode = "seq" =>
                   /\ ~InParallel
                   /\ pp = "p_idle" /\ cp_ = "c_idle" /\ parLog = <<>>
                   /\ (mpc = "exited" =>
                          seqTotal # -1 /\ summary = <<"SEQUENTIAL">>))
            /\ (c.mode = "par" =>
                   /\ ~InSequential
                   /\ next = 0 /\ seqLog = <<>> /\ seqTotal = -1
                   /\ (mpc = "exited" =>
                          ThreadsEnded /\ summary = <<"PARALLEL">>))
            /\ (c.mode = "both" =>
                   /\ (mpc \in {"m_reset_lock", "m_reset"} \/ InParallel
                          => seqTotal # -1 /\ summary = <<>>)
                   /\ (mpc \in {"m_reset_lock", "m_reset"} \/ InSequential
                          => pp = "p_idle" /\ cp_ = "c_idle")
                   /\ (mpc = "m_reset" => mtx = "main")
                   /\ (mpc = "exited" =>
                          /\ seqTotal # -1 /\ ThreadsEnded
                          /\ summary = <<"SEQUENTIAL", "PARALLEL", "seq-par">>))
            /\ (summary # <<>> => mpc = "exited" /\ exitStatus = 0))
    /\ [][c.mode = "both" /\ mpc' = "par_spawn" /\ mpc # "par_spawn" =>
            /\ mpc = "m_reset" /\ mtx = "main" /\ mtx' = "none"
            /\ q' = <<>> /\ done' = FALSE]_vars

\* mode both has printed its summary after both runs
C17_Witness ==
    /\ c.mode = "both"
    /\ mpc = "exited"
    /\ summary = <<"SEQUENTIAL", "PARALLEL", "seq-par">>
    /\ seqLog = <<1, 2>>
    /\ conLog = <<1, 2>>

----------------------------------------------------------------------------
(* Conservation of items, invalid capacity, frame of run_sequential *)

\* C18: in every state of the parallel run the items appended minus the
\* items removed are the items in the buffer, which holds exactly
\* consumed+1 .. produced in increasing order; hence the producer is never
\* more than capacity items ahead of the consumer.
C18_Conservation ==
    InParallel =>
        /\ consumed = Len(conLog)
        /\ Len(parLog) - Len(conLog) = Len(q)
        /\ q = SubSeq(UpTo(Len(parLog)), consumed + 1, Len(parLog))
        /\ Len(parLog) - consumed <= c.cap

\* the shared state that run_sequential could reach: q, done, mtx, the two
\* threads (hence the waiters of cp and cc) and the signals sent
SharedState == <<q, done, mtx, pp, cp_, cpSignals, ccSignals, ccBroadcasts>>

\* C20: run_sequential leaves q, done, mtx and both condition variables as
\* they were, so that the reset of mode both finds q empty and done false
\* and changes neither, and leaves the mutex free as it found it.
C20_SequentialFrame ==
    /\ [](InSequential \/ mpc = "m_reset_lock" =>
            /\ q = <<>> /\ done = FALSE /\ mtx = "none"
            /\ pp = "p_idle" /\ cp_ = "c_idle")
    /\ [][InSequential => UNCHANGED SharedState]_vars
    /\ [][(mpc = "m_reset_lock" \/ mpc = "m_reset") =>
            (/\ q' = q /\ done' = done
             /\ pp' = pp /\ cp_' = cp_
             /\ cpSignals' = cpSignals /\ ccSignals' = ccSignals
             /\ ccBroadcasts' = ccBroadcasts
             /\ (mpc = "m_reset" => mtx' = "none"))]_vars

\* main owns the mutex for the reset after run_sequential consumed items
C20_Witness ==
    /\ mpc = "m_reset"
    /\ mtx = "main"
    /\ seqLog = <<1, 2, 3>>
    /\ q = <<>>
    /\ done = FALSE

\* a runner is executing with capacity <= 0 and itemCount >= 1
BadCapacityRun ==
    /\ c.cap <= 0 /\ c.items >= 1
    /\ InSequential \/ InParallel

\* the producer is inside cp.wait, the consumer is inside cc.wait
ProdInWait == pp \in {"p_waiting", "p_woken", "p_recheck"}
ConsInWait == cp_ \in {"c_waiting", "c_woken", "c_recheck"}

\* C19: a run started with capacity <= 0 and itemCount >= 1 never produces
\* an item and never ends.  In the parallel strategy the producer ends up
\* for ever inside cp.wait with the buffer empty and the consumer inside
\* cc.wait with done false; once both are suspended no step but a spurious
\* wakeup is possible, and tp.join() never returns.  In the sequential
\* strategy the outer loop is entered again and again without an append.
C19_NonPositiveCapacity ==
    /\ [](BadCapacityRun =>
            /\ parLog = <<>> /\ conLog = <<>> /\ seqLog = <<>>
            /\ q = <<>> /\ b = <<>> /\ done = FALSE
            /\ next <= 1 /\ i <= 1
            /\ mpc \in {"seq_outer", "seq_fill", "seq_drain",
                        "par_spawn", "par_spawn2", "par_join"}
            /\ exitStatus = -1
            /\ (pp = "p_waiting" /\ cp_ = "c_waiting" =>
                    ~ENABLED (ThreadNext \/ MainNext)))
    /\ [](BadCapacityRun /\ InParallel =>
            <>[](ProdInWait /\ ConsInWait /\ mpc = "par_join"))
    /\ [](BadCapacityRun /\ InSequential => []<>(mpc = "seq_outer"))

\* both threads are suspended with capacity 0: the deadlock
C19_Witness ==
    /\ BadCapacityRun
    /\ c.cap = 0
    /\ mpc = "par_join"
    /\ pp = "p_waiting"
    /\ cp_ = "c_waiting"

====
